---- MODULE Spec2Model ----
(***************************************************************************)
(* Model of syntax_highlighter/highlighter.py: the mute / find / unmute /  *)
(* colour pipeline of colorize, and the sequential passes of colorfile.    *)
(*                                                                         *)
(* A text is a sequence of one-character strings.  Three characters are    *)
(* written by name: "dq" is the double quote, "nl" the newline and "ESC"   *)
(* the escape character \033.  Offsets are Python's: 0-based, and a span   *)
(* (start, end) is half open.                                              *)
(***************************************************************************)
EXTENDS Integers, Sequences, FiniteSets, TLC

(* ------------------------------------------------------------------ *)
(* Bounds of the model                                                 *)
(* ------------------------------------------------------------------ *)
MaxTokens == 3

(* ------------------------------------------------------------------ *)
(* Characters and Python slicing                                       *)
(* ------------------------------------------------------------------ *)
WordChars == {"i", "f", "x", "c", "o", "m", "e", "n", "t", "0", "1", "2", "3"}

Min(a, b) == IF a < b THEN a ELSE b

\* text[a:b] of Python, for 0 <= a: the slice is clipped to the text.
Slice(text, a, b) == SubSeq(text, Min(a, Len(text)) + 1, Min(b, Len(text)))

(* ------------------------------------------------------------------ *)
(* Regular expressions: the fragment of Python's re used by the rules. *)
(* A pattern is a sequence of items; an item is a literal character,   *)
(* the assertion \b, or a starred character class (greedy or lazy).    *)
(* ------------------------------------------------------------------ *)
Lit(ch) == [t |-> "lit", c |-> ch, greedy |-> TRUE]

WordB == [t |-> "wb", c |-> "", greedy |-> TRUE]

\* .* and .*?
DotStar(g) == [t |-> "any", c |-> "", greedy |-> g]

\* [^c]*
NotStar(ch) == [t |-> "not", c |-> ch, greedy |-> TRUE]

\* c* and c*?
LitStar(ch, g) == [t |-> "is", c |-> ch, greedy |-> g]

\* Does the character class of a starred item accept ch?  The dot accepts
\* the newline only under re.DOTALL.
Accepts(item, ch, dotall) ==
    CASE item.t = "any" -> dotall \/ ch # "nl"
      [] item.t = "not" -> ch # item.c
      [] item.t = "is" -> ch = item.c
      [] OTHER -> FALSE

IsWord(text, p) == p >= 1 /\ p <= Len(text) /\ text[p] \in WordChars

\* \b at offset i: exactly one of the characters around i is a word character.
IsBoundary(text, i) == IsWord(text, i) # IsWord(text, i + 1)

RECURSIVE Run(_, _, _, _)
\* The number of consecutive characters from offset i that the class accepts.
Run(text, i, item, dotall) ==
    IF i < Len(text) /\ Accepts(item, text[i + 1], dotall)
    THEN 1 + Run(text, i + 1, item, dotall)
    ELSE 0

RECURSIVE MatchFrom(_, _, _, _, _, _)
RECURSIVE TryStar(_, _, _, _, _, _, _, _)
\* Backtracking match of items k.. of pat at offset i: the end offset of the
\* first match in the engine's order of preference, or -1.  A match must end
\* at lo or later (lo is start + 1 when the scan must advance).
MatchFrom(pat, k, text, i, lo, dotall) ==
    IF k > Len(pat) THEN (IF i >= lo THEN i ELSE -1)
    ELSE LET item == pat[k] IN
         CASE item.t = "lit" ->
                IF i < Len(text) /\ text[i + 1] = item.c
                THEN MatchFrom(pat, k + 1, text, i + 1, lo, dotall)
                ELSE -1
           [] item.t = "wb" ->
                IF IsBoundary(text, i)
                THEN MatchFrom(pat, k + 1, text, i, lo, dotall)
                ELSE -1
           [] OTHER ->
                LET n == Run(text, i, item, dotall) IN
                TryStar(pat, k, text, i, lo, dotall,
                        IF item.greedy THEN n ELSE 0, n)

\* The star of item k takes j characters; on failure a greedy star gives one
\* back and a lazy star takes one more.
TryStar(pat, k, text, i, lo, dotall, j, n) ==
    IF j < 0 \/ j > n THEN -1
    ELSE LET e == MatchFrom(pat, k + 1, text, i + j, lo, dotall) IN
         IF e # -1 THEN e
         ELSE TryStar(pat, k, text, i, lo, dotall,
                      IF pat[k].greedy THEN j - 1 ELSE j + 1, n)

RECURSIVE Search(_, _, _, _, _)
\* The leftmost match starting at pos or later: <<start, end>>, or <<-1, -1>>.
\* With must_advance an empty match at pos itself is not accepted.
Search(pat, text, pos, must_advance, dotall) ==
    IF pos > Len(text) THEN <<-1, -1>>
    ELSE LET e == MatchFrom(pat, 1, text, pos,
                            IF must_advance THEN pos + 1 ELSE pos, dotall) IN
         IF e # -1 THEN <<pos, e>>
         ELSE Search(pat, text, pos + 1, FALSE, dotall)

RECURSIVE Scan(_, _, _, _, _)
\* The scanner behind finditer and sub: after a match the search resumes at
\* its end, and after an empty match it must advance.
Scan(pat, text, pos, must_advance, dotall) ==
    LET m == Search(pat, text, pos, must_advance, dotall) IN
    IF m[1] = -1 THEN << >>
    ELSE <<m>> \o Scan(pat, text, m[2], m[2] = m[1], dotall)

\* pattern.finditer(text): the spans of the non-overlapping matches.
finditer(pat, text, dotall) == Scan(pat, text, 0, FALSE, dotall)

(* ------------------------------------------------------------------ *)
(* The rules: the syntax file's regexes and the theme's colours        *)
(* ------------------------------------------------------------------ *)
\* \bif\b
kwexpr == <<WordB, Lit("i"), Lit("f"), WordB>>

\* "[^"]*"
strexpr == <<Lit("dq"), NotStar("dq"), Lit("dq")>>

\* //.*
comexpr == <<Lit("/"), Lit("/"), DotStar(TRUE)>>

\* /\*.*?\*/
mlcomexpr == <<Lit("/"), Lit("*"), DotStar(FALSE), Lit("*"), Lit("/")>>

Kinds == {"keyword", "string", "comment", "mlcomment"}

\* syntax_dict[key]: the regex of a category.
RegexOf(key) ==
    CASE key = "string" -> strexpr
      [] key = "comment" -> comexpr
      [] key = "mlcomment" -> mlcomexpr
      [] OTHER -> kwexpr

\* color_list[0] of a category: keyword 31, string 33, comment and mlcomment 32.
ColorOf(key) ==
    CASE key = "string" -> <<"3", "3">>
      [] key = "comment" -> <<"3", "2">>
      [] key = "mlcomment" -> <<"3", "2">>
      [] OTHER -> <<"3", "1">>

\* Further expressions handed to mute_expression: x* and x*? match the filler
\* and the empty string.
Exprs == {kwexpr, strexpr, comexpr, mlcomexpr,
          <<LitStar("x", TRUE)>>, <<LitStar("x", FALSE), Lit("dq")>>}

(* ------------------------------------------------------------------ *)
(* repl, mute_expression, unmute_expression                            *)
(* ------------------------------------------------------------------ *)
\* A filler of one character whatever the length of the match.
repl_single(group) == IF Len(group) = 0 THEN << >> ELSE <<"x">>

\* repl(m): 'x' * len(m.group())
repl(group) == [j \in 1..Len(group) |-> "x"]

RECURSIVE SubFrom(_, _, _, _)
\* re.sub(pattern, repl, text): the text between the matches is copied and
\* each match is replaced by repl of it; ms are the scanner's matches from
\* index k on and pos is the end of the previous one.
SubFrom(text, ms, k, pos) ==
    IF k > Len(ms) THEN Slice(text, pos, Len(text))
    ELSE Slice(text, pos, ms[k][1])
         \o repl(Slice(text, ms[k][1], ms[k][2]))
         \o SubFrom(text, ms, k + 1, ms[k][2])

sub(pat, text, dotall) == SubFrom(text, Scan(pat, text, 0, FALSE, dotall), 1, 0)

\* The spans are recorded but the result of re.sub is dropped: nothing is masked.
mute_expression_unmasked(text, expr, is_multiline) ==
    LET ms == finditer(expr, text, is_multiline) IN
    [text |-> text,
     expr_start |-> [k \in 1..Len(ms) |-> ms[k][1]],
     expr_end |-> [k \in 1..Len(ms) |-> ms[k][2]],
     expr_match |-> [k \in 1..Len(ms) |-> Slice(text, ms[k][1], ms[k][2])]]

\* mute_expression(text, expr, is_multiline): the masked text and the three
\* parallel lists.
mute_expression(text, expr, is_multiline) ==
    LET ms == finditer(expr, text, is_multiline) IN
    [text |-> sub(expr, text, is_multiline),
     expr_start |-> [k \in 1..Len(ms) |-> ms[k][1]],
     expr_end |-> [k \in 1..Len(ms) |-> ms[k][2]],
     expr_match |-> [k \in 1..Len(ms) |-> Slice(text, ms[k][1], ms[k][2])]]

RECURSIVE UnmuteFrom(_, _, _, _, _)
\* The loop of unmute_expression from index i on.
UnmuteFrom(text, expr_start, expr_end, expr_match, i) ==
    IF i > Len(expr_match) THEN text
    ELSE UnmuteFrom(Slice(text, 0, expr_start[i]) \o expr_match[i]
                        \o Slice(text, expr_end[i], Len(text)),
                    expr_start, expr_end, expr_match, i + 1)

\* The loop starts at the second match: range(1, len(expr_match)).
unmute_expression_skipfirst(text, expr_start, expr_end, expr_match) ==
    UnmuteFrom(text, expr_start, expr_end, expr_match, 2)

unmute_expression(text, expr_start, expr_end, expr_match) ==
    UnmuteFrom(text, expr_start, expr_end, expr_match, 1)

(* ------------------------------------------------------------------ *)
(* The colour loop of colorize                                         *)
(* ------------------------------------------------------------------ *)
\* "\033[{}m".format(color[0])
OpenSeq(color) == <<"ESC", "[">> \o color \o <<"m">>

\* "\033[0m"
ResetSeq == <<"ESC", "[", "0", "m">>

RECURSIVE ColorFrom(_, _, _, _, _, _, _)
\* The loop over the recorded matches from index i on, with the running nudge.
ColorFrom(text, colorstart, colorend, colorstring, color, i, nudge) ==
    IF i > Len(colorstring) THEN text
    ELSE LET highlightedexpr == OpenSeq(color) \o colorstring[i] \o ResetSeq IN
         ColorFrom(Slice(text, 0, colorstart[i] + nudge) \o highlightedexpr
                       \o Slice(text, colorend[i] + nudge, Len(text)),
                   colorstart, colorend, colorstring, color, i + 1,
                   nudge + Len(OpenSeq(color)) + Len(ResetSeq))

(* ------------------------------------------------------------------ *)
(* Inputs: the source texts and the iteration orders of syntax_dict    *)
(* ------------------------------------------------------------------ *)
Tokens == << <<"dq">>, <<"/", "/">>, <<"/", "*">>, <<"*", "/">>, <<"nl">>, <<"i", "f">> >>

\* The tokens of a text handed to colorize: those of a source, the filler,
\* and an escape sequence that an earlier pass may have inserted.
PassTokens == Tokens \o << <<"x">>, <<"ESC", "[", "0", "m">> >>

RECURSIVE Flatten(_, _)
Flatten(toks, ts) == IF ts = << >> THEN << >> ELSE toks[Head(ts)] \o Flatten(toks, Tail(ts))

\* Every text of at most MaxTokens of the tokens toks.
TextsOver(toks) == {Flatten(toks, ts) : ts \in UNION {[1..k -> 1..Len(toks)] : k \in 0..MaxTokens}}

ShortTexts == TextsOver(Tokens)

PassTexts == TextsOver(PassTokens)

\* if (x) { } // if comment
Example == <<"i", "f", " ", "(", "x", ")", " ", "{", " ", "}", " ",
             "/", "/", " ", "i", "f", " ", "c", "o", "m", "m", "e", "n", "t">>

\* Longer sources: a string holding a block comment, a block comment over two
\* lines holding a string, a line comment holding a quote before a string.
Samples == {Example,
            <<"dq", "/", "*", "*", "/", "dq">>,
            <<"/", "*", "dq", "nl", "dq", "*", "/">>,
            <<"/", "/", "dq", "nl", "dq", "dq">>}

Sources == ShortTexts \cup Samples

\* The iteration orders of the merged mapping: every order of the categories.
Orders == {o \in [1..Cardinality(Kinds) -> Kinds] : \A a, b \in DOMAIN o : a # b => o[a] # o[b]}

\* The order of the theme and syntax of the end-to-end example.
ExampleOrder == <<"keyword", "string", "comment", "mlcomment">>

(* ------------------------------------------------------------------ *)
(* State                                                               *)
(* ------------------------------------------------------------------ *)
VARIABLES
    source,       \* the source file's text, as read
    syntax_dict,  \* the categories in the mapping's iteration order
    key,          \* index of the category of the current pass, 0 before the first
    pc,           \* the statement of colorfile / colorize about to run
    text,         \* the text buffer
    arg_text,     \* the text colorize was called with in the current pass
    mlcs, mlce, mlcm,   \* spans masked as block comments
    ss, se, sm,         \* spans masked as strings
    cs, ce, cm,         \* spans masked as line comments
    colorstart, colorend, colorstring,   \* spans matched by the rule's own regex
    muted,        \* the categories masked in this pass, in the order of masking
    unmuted       \* the categories unmasked in this pass, in the order of unmasking

vars == <<source, syntax_dict, key, pc, text, arg_text, mlcs, mlce, mlcm, ss, se, sm,
          cs, ce, cm, colorstart, colorend, colorstring, muted, unmuted>>

locals == <<mlcs, mlce, mlcm, ss, se, sm, cs, ce, cm, colorstart, colorend, colorstring>>

frame == <<source, syntax_dict, key, arg_text>>

kind == syntax_dict[key]

Init ==
    /\ source \in Sources
    /\ syntax_dict \in Orders
    /\ key = 0
    /\ pc = "loop"
    /\ text = source
    /\ arg_text = source
    /\ mlcs = << >> /\ mlce = << >> /\ mlcm = << >>
    /\ ss = << >> /\ se = << >> /\ sm = << >>
    /\ cs = << >> /\ ce = << >> /\ cm = << >>
    /\ colorstart = << >> /\ colorend = << >> /\ colorstring = << >>
    /\ muted = << >>
    /\ unmuted = << >>

(* ------------------------------------------------------------------ *)
(* colorfile: the loop over the categories                             *)
(* ------------------------------------------------------------------ *)
\* for key in syntax_dict: text = colorize(text, ...): the call of the next pass.
NextKey ==
    /\ pc = "loop"
    /\ key < Len(syntax_dict)
    /\ key' = key + 1
    /\ arg_text' = text
    /\ pc' = "mute_ml"
    /\ mlcs' = << >> /\ mlce' = << >> /\ mlcm' = << >>
    /\ ss' = << >> /\ se' = << >> /\ sm' = << >>
    /\ cs' = << >> /\ ce' = << >> /\ cm' = << >>
    /\ colorstart' = << >> /\ colorend' = << >> /\ colorstring' = << >>
    /\ muted' = << >>
    /\ unmuted' = << >>
    /\ UNCHANGED <<source, syntax_dict, text>>

\* print(text)
PrintText ==
    /\ pc = "loop"
    /\ key = Len(syntax_dict)
    /\ pc' = "printed"
    /\ UNCHANGED <<source, syntax_dict, key, text, arg_text, locals, muted, unmuted>>

(* ------------------------------------------------------------------ *)
(* colorize: one action per statement                                  *)
(* ------------------------------------------------------------------ *)
\* if(kind != "mlcomment"): text, mlcs, mlce, mlcm = mute_expression(text, mlcomexpr, True)
MuteMl ==
    /\ pc = "mute_ml"
    /\ pc' = "mute_str"
    /\ IF kind # "mlcomment"
       THEN LET m == mute_expression(text, mlcomexpr, TRUE) IN
            /\ text' = m.text
            /\ mlcs' = m.expr_start /\ mlce' = m.expr_end /\ mlcm' = m.expr_match
            /\ muted' = Append(muted, "mlcomment")
       ELSE UNCHANGED <<text, mlcs, mlce, mlcm, muted>>
    /\ UNCHANGED <<frame, ss, se, sm, cs, ce, cm, colorstart, colorend, colorstring, unmuted>>

\* if(kind != "string" and kind != "mlcomment"): text, ss, se, sm = mute_expression(text, strexpr, False)
MuteStr ==
    /\ pc = "mute_str"
    /\ pc' = "mute_com"
    /\ IF kind # "string" /\ kind # "mlcomment"
       THEN LET m == mute_expression(text, strexpr, FALSE) IN
            /\ text' = m.text
            /\ ss' = m.expr_start /\ se' = m.expr_end /\ sm' = m.expr_match
            /\ muted' = Append(muted, "string")
       ELSE UNCHANGED <<text, ss, se, sm, muted>>
    /\ UNCHANGED <<frame, mlcs, mlce, mlcm, cs, ce, cm, colorstart, colorend, colorstring, unmuted>>

\* if(kind != "comment"): text, cs, ce, cm = mute_expression(text, comexpr, False)
MuteCom ==
    /\ pc = "mute_com"
    /\ pc' = "find"
    /\ IF kind # "comment"
       THEN LET m == mute_expression(text, comexpr, FALSE) IN
            /\ text' = m.text
            /\ cs' = m.expr_start /\ ce' = m.expr_end /\ cm' = m.expr_match
            /\ muted' = Append(muted, "comment")
       ELSE UNCHANGED <<text, cs, ce, cm, muted>>
    /\ UNCHANGED <<frame, mlcs, mlce, mlcm, ss, se, sm, colorstart, colorend, colorstring, unmuted>>

\* The spans and matched text of the rule's own regex on the masked text,
\* compiled with re.DOTALL only for the mlcomment category.
FindMatches(t, k) ==
    LET ms == finditer(RegexOf(k), t, k = "mlcomment") IN
    [start |-> [j \in 1..Len(ms) |-> ms[j][1]],
     end |-> [j \in 1..Len(ms) |-> ms[j][2]],
     group |-> [j \in 1..Len(ms) |-> Slice(t, ms[j][1], ms[j][2])]]

\* for match in regex.finditer(text): ...
Find ==
    /\ pc = "find"
    /\ pc' = "unmute_str"
    /\ LET f == FindMatches(text, kind) IN
       /\ colorstart' = f.start
       /\ colorend' = f.end
       /\ colorstring' = f.group
    /\ UNCHANGED <<frame, text, mlcs, mlce, mlcm, ss, se, sm, cs, ce, cm, muted, unmuted>>

\* if(kind != "string" and kind != "mlcomment"): text = unmute_expression(text, ss, se, sm)
UnmuteStr ==
    /\ pc = "unmute_str"
    /\ pc' = "unmute_com"
    /\ IF kind # "string" /\ kind # "mlcomment"
       THEN /\ text' = unmute_expression(text, ss, se, sm)
            /\ unmuted' = Append(unmuted, "string")
       ELSE UNCHANGED <<text, unmuted>>
    /\ UNCHANGED <<frame, locals, muted>>

\* if(kind != "comment"): text = unmute_expression(text, cs, ce, cm)
UnmuteCom ==
    /\ pc = "unmute_com"
    /\ pc' = "unmute_ml"
    /\ IF kind # "comment"
       THEN /\ text' = unmute_expression(text, cs, ce, cm)
            /\ unmuted' = Append(unmuted, "comment")
       ELSE UNCHANGED <<text, unmuted>>
    /\ UNCHANGED <<frame, locals, muted>>

\* if(kind != "mlcomment"): text = unmute_expression(text, mlcs, mlce, mlcm)
UnmuteMl ==
    /\ pc = "unmute_ml"
    /\ pc' = "color"
    /\ IF kind # "mlcomment"
       THEN /\ text' = unmute_expression(text, mlcs, mlce, mlcm)
            /\ unmuted' = Append(unmuted, "mlcomment")
       ELSE UNCHANGED <<text, unmuted>>
    /\ UNCHANGED <<frame, locals, muted>>

\* nudge = 0; for i in range(len(colorstring)): ...; return text
Color ==
    /\ pc = "color"
    /\ pc' = "loop"
    /\ text' = ColorFrom(text, colorstart, colorend, colorstring, ColorOf(kind), 1, 0)
    /\ UNCHANGED <<frame, locals, muted, unmuted>>

Next ==
    \/ NextKey
    \/ PrintText
    \/ MuteMl
    \/ MuteStr
    \/ MuteCom
    \/ Find
    \/ UnmuteStr
    \/ UnmuteCom
    \/ UnmuteMl
    \/ Color

Spec == Init /\ [][Next]_vars

(* ------------------------------------------------------------------ *)
(* One call of colorize, as a function: any category on any text       *)
(* ------------------------------------------------------------------ *)
\* colorize(text, regex, color, kind, strexpr, comexpr, mlcomexpr) is entered;
\* syntax_dict holds the one category of the call.
InitPass ==
    /\ source \in PassTexts \cup Samples
    /\ syntax_dict \in {<<k>> : k \in Kinds}
    /\ key = 1
    /\ pc = "mute_ml"
    /\ text = source
    /\ arg_text = source
    /\ mlcs = << >> /\ mlce = << >> /\ mlcm = << >>
    /\ ss = << >> /\ se = << >> /\ sm = << >>
    /\ cs = << >> /\ ce = << >> /\ cm = << >>
    /\ colorstart = << >> /\ colorend = << >> /\ colorstring = << >>
    /\ muted = << >>
    /\ unmuted = << >>

NextPass ==
    \/ MuteMl
    \/ MuteStr
    \/ MuteCom
    \/ Find
    \/ UnmuteStr
    \/ UnmuteCom
    \/ UnmuteMl
    \/ Color

SpecPass == InitPass /\ [][NextPass]_vars

(* ------------------------------------------------------------------ *)
(* Vocabulary of the properties                                        *)
(* ------------------------------------------------------------------ *)
Reverse(s) == [i \in 1..Len(s) |-> s[Len(s) + 1 - i]]

\* Two half-open spans share a character.
Overlap(s1, e1, s2, e2) == s1 < e2 /\ s2 < e1

\* The rule's matches are recorded and the pass has not returned.
Found == pc \in {"unmute_str", "unmute_com", "unmute_ml", "color"}

\* colorize has returned from a pass.
Returned == pc = "loop" /\ key >= 1

\* The statements of a pass between the first mute and the colour loop.
InMasking == pc \in {"mute_str", "mute_com", "find", "unmute_str", "unmute_com", "unmute_ml", "color"}

ColoredSpans == {<<colorstart[i], colorend[i]>> : i \in DOMAIN colorstart}

MaskedSpans ==
    {<<mlcs[i], mlce[i]>> : i \in DOMAIN mlcs}
        \cup {<<ss[i], se[i]>> : i \in DOMAIN ss}
        \cup {<<cs[i], ce[i]>> : i \in DOMAIN cs}

\* colorize is entered: the buffer is the text it was called with.
Entered == pc = "mute_ml"

(* ------------------------------------------------------------------ *)
(* C1: unmute_expression applied to the masked text and the three      *)
(* lists returned by mute_expression(text, pattern) gives back the     *)
(* text, for every expression, multi-line or line-oriented, on every   *)
(* text colorize is called with; and in the mlcomment pass, where the  *)
(* one mute is undone by the one unmute, the buffer is the pass's      *)
(* input again.                                                        *)
(* ------------------------------------------------------------------ *)
C1_RoundTrip ==
    /\ Entered =>
          \A e \in Exprs : \A d \in BOOLEAN :
             LET m == mute_expression(text, e, d) IN
             unmute_expression(m.text, m.expr_start, m.expr_end, m.expr_match) = text
    /\ (pc = "unmute_ml" /\ kind = "mlcomment") => text = arg_text

\* A line comment was masked in the mlcomment pass, the buffer differed from
\* the input while masked, and the unmute has run.
C1_Witness ==
    /\ pc = "unmute_ml" /\ kind = "mlcomment"
    /\ Len(cm) >= 1
    /\ mute_expression(arg_text, comexpr, FALSE).text # arg_text
    /\ text = arg_text

(* ------------------------------------------------------------------ *)
(* C2: the text returned by mute_expression has the length of its      *)
(* input, for every expression on every text colorize is called with,  *)
(* and the buffer keeps the length of the pass's input through every   *)
(* mute and unmute step, up to the colour loop.                        *)
(* ------------------------------------------------------------------ *)
C2_LengthInvariant ==
    /\ Entered =>
          \A e \in Exprs : \A d \in BOOLEAN :
             Len(mute_expression(text, e, d).text) = Len(text)
    /\ InMasking => Len(text) = Len(arg_text)

\* Three categories were masked, one of them over more than one character,
\* and all the unmutes have run.
C2_Witness ==
    /\ pc = "color"
    /\ Len(muted) = 3
    /\ \E sp \in MaskedSpans : sp[2] - sp[1] >= 2
    /\ Len(text) = Len(arg_text)

(* ------------------------------------------------------------------ *)
(* C3: when the rule's own pattern finds no match in a pass, colorize  *)
(* returns the text exactly as it was given.                           *)
(* ------------------------------------------------------------------ *)
C3_PlainTextUnchanged == (Returned /\ colorstring = << >>) => text = arg_text

(* ------------------------------------------------------------------ *)
(* C4, as claimed: in a pass no span that receives colour escapes      *)
(* overlaps a span that was masked in that pass.                       *)
(* ------------------------------------------------------------------ *)
C4_NoOverlap ==
    Found => \A c \in ColoredSpans : \A m \in MaskedSpans :
                ~Overlap(c[1], c[2], m[1], m[2])

(* ------------------------------------------------------------------ *)
(* C4, amended: in a pass a coloured span shares characters with a     *)
(* masked span only by enclosing the whole of it, starting before it   *)
(* (the string, comment and mlcomment patterns accept the filler       *)
(* between their delimiters); no coloured span lies inside a masked    *)
(* span, so a string inside a block comment is not coloured as a       *)
(* string; and for the keyword rule no coloured span overlaps a masked *)
(* span at all.                                                        *)
(* ------------------------------------------------------------------ *)
C4_Suppression ==
    Found => \A c \in ColoredSpans : \A m \in MaskedSpans :
                /\ kind = "keyword" => ~Overlap(c[1], c[2], m[1], m[2])
                /\ Overlap(c[1], c[2], m[1], m[2]) => (c[1] < m[1] /\ m[2] <= c[2])

\* The keyword pass on the example: the keyword at offset 0 is matched, and
\* the line comment masked from offset 11 on holds the keyword too.
C4_Witness ==
    /\ pc = "unmute_str" /\ kind = "keyword"
    /\ arg_text = Example
    /\ colorstart = <<0>> /\ colorend = <<2>>
    /\ cs = <<11>> /\ ce = <<24>>
    /\ finditer(kwexpr, cm[1], FALSE) # << >>

(* ------------------------------------------------------------------ *)
(* C5: every highlight a pass inserts is the opening sequence of the   *)
(* rule's colour, the matched text, and the reset sequence; and in the *)
(* printed text the opening sequences and the reset sequences are      *)
(* equal in number.                                                    *)
(* ------------------------------------------------------------------ *)
OpenSeqs == {OpenSeq(ColorOf(k)) : k \in Kinds}

CountOpen(t) == Cardinality({q \in 0..(Len(t) - 1) : Slice(t, q, q + 5) \in OpenSeqs})

CountReset(t) == Cardinality({q \in 0..(Len(t) - 1) : Slice(t, q, q + 4) = ResetSeq})

\* The characters one highlight adds to the text.
Added(k) == Len(OpenSeq(ColorOf(k))) + Len(ResetSeq)

C5_WellFormed ==
    /\ Returned =>
          \A i \in DOMAIN colorstring :
             Slice(text, colorstart[i] + (i - 1) * Added(kind), colorend[i] + i * Added(kind))
                = OpenSeq(ColorOf(kind)) \o colorstring[i] \o ResetSeq
    /\ pc = "printed" => CountOpen(text) = CountReset(text)

(* ------------------------------------------------------------------ *)
(* C6: with the rules applied in the order keyword, string, comment,   *)
(* mlcomment, a source made of code (no quote, slash or star) followed *)
(* by a line comment that holds the keyword is printed with each       *)
(* keyword of the code wrapped in colour 31 and the whole comment      *)
(* wrapped as one span in colour 32, nothing coloured inside it.       *)
(* ------------------------------------------------------------------ *)
\* The source is code up to offset p and one line comment from p to its end,
\* with a keyword in the code and a keyword in the comment.
CodeThenComment(src, p) ==
    /\ Slice(src, p, p + 2) = <<"/", "/">>
    /\ \A j \in 1..p : src[j] \notin {"dq", "/", "*"}
    /\ \A j \in (p + 3)..Len(src) : src[j] \notin {"dq", "/", "*", "nl"}
    /\ \E m \in DOMAIN finditer(kwexpr, src, FALSE) : finditer(kwexpr, src, FALSE)[m][2] <= p
    /\ \E m \in DOMAIN finditer(kwexpr, src, FALSE) : finditer(kwexpr, src, FALSE)[m][1] >= p

ExpectedOutput(src, p) ==
    LET code == Slice(src, 0, p)
        kws == finditer(kwexpr, code, FALSE)
    IN ColorFrom(code,
                 [j \in 1..Len(kws) |-> kws[j][1]],
                 [j \in 1..Len(kws) |-> kws[j][2]],
                 [j \in 1..Len(kws) |-> Slice(code, kws[j][1], kws[j][2])],
                 <<"3", "1">>, 1, 0)
          \o <<"ESC", "[", "3", "2", "m">> \o Slice(src, p, Len(src)) \o <<"ESC", "[", "0", "m">>

C6_EndToEnd ==
    (pc = "printed" /\ syntax_dict = ExampleOrder) =>
        \A p \in 0..Len(source) :
           CodeThenComment(source, p) => text = ExpectedOutput(source, p)

(* ------------------------------------------------------------------ *)
(* C7: within a pass the masked categories are unmasked in the reverse *)
(* of the order in which they were masked.                             *)
(* ------------------------------------------------------------------ *)
C7_ReverseOrder == pc = "color" => unmuted = Reverse(muted)

(* ------------------------------------------------------------------ *)
(* C8: removing from the text a pass returns exactly the opening and   *)
(* reset sequences that the pass inserted gives back the pass's input. *)
(* ------------------------------------------------------------------ *)
\* The offsets, in the returned text, of the characters the pass inserted.
InsertedOffsets ==
    UNION {{q \in 0..(Len(text) - 1) :
              LET open == colorstart[i] + (i - 1) * Added(kind)
                  reset == colorend[i] + (i - 1) * Added(kind) + Len(OpenSeq(ColorOf(kind)))
              IN \/ (open <= q /\ q < open + Len(OpenSeq(ColorOf(kind))))
                 \/ (reset <= q /\ q < reset + Len(ResetSeq))}
           : i \in DOMAIN colorstart}

RECURSIVE KeepFrom(_, _, _)
\* The characters of out from offset j on whose offsets are not in ins.
KeepFrom(out, ins, j) ==
    IF j >= Len(out) THEN << >>
    ELSE (IF j \in ins THEN << >> ELSE <<out[j + 1]>>) \o KeepFrom(out, ins, j + 1)

C8_ContentPreserved == Returned => KeepFrom(text, InsertedOffsets, 0) = arg_text

(* ------------------------------------------------------------------ *)
(* C9: no span matched for colouring in a pass holds a character of an *)
(* escape sequence that an earlier pass inserted, and the pass leaves  *)
(* the earlier escape characters in the text.                          *)
(* ------------------------------------------------------------------ *)
\* The offsets of t that belong to an escape sequence.  The sources hold no
\* escape character, so every one in a pass's input was inserted earlier.
EscapeOffsets(t) ==
    {q \in 0..(Len(t) - 1) :
        \E b \in 0..q :
           /\ t[b + 1] = "ESC"
           /\ q < b + (IF Slice(t, b, b + 4) = ResetSeq THEN 4 ELSE 5)}

CountEsc(t) == Cardinality({q \in 1..Len(t) : t[q] = "ESC"})

C9_EscapesNotMatched ==
    /\ Found => \A c \in ColoredSpans : \A q \in c[1]..(c[2] - 1) :
                   q \notin EscapeOffsets(arg_text)
    /\ Returned => CountEsc(text) = CountEsc(arg_text) + 2 * Len(colorstring)

(* ------------------------------------------------------------------ *)
(* C10: on the same input text, the spans that the string pass colours *)
(* are the spans that a pass of an ordinary category masks as string   *)
(* literals.                                                           *)
(* ------------------------------------------------------------------ *)
\* The spans that a pass of an ordinary category masks as strings on t: the
\* block comments are masked first, the strings second.
OrdinaryStringMask(t) ==
    LET a == mute_expression(t, mlcomexpr, TRUE)
        b == mute_expression(a.text, strexpr, FALSE)
    IN {<<b.expr_start[i], b.expr_end[i]>> : i \in DOMAIN b.expr_start}

C10_StringSpansAgree ==
    (pc = "unmute_str" /\ kind = "string") => ColoredSpans = OrdinaryStringMask(arg_text)

====
